---- MODULE Spec2Model ----
(***************************************************************************)
(* AngelBot: the threshold-alert polling loops and the webhook handlers    *)
(* that share their state store.                                           *)
(*                                                                         *)
(*  - notify_loop and webhook of app.py / bot.py over users.json           *)
(*    (specifications Spec and SpecRun);                                   *)
(*  - alert_worker of Server.py over the alerts table (SpecAlert).         *)
(*                                                                         *)
(* Time is counted in whole minutes of wall-clock time.  Prices and        *)
(* thresholds are whole numbers; on the values used here the code's        *)
(* double-precision expression (price - baseline) / baseline * 100.0       *)
(* compares against the threshold exactly as the rational number does.     *)
(***************************************************************************)
EXTENDS Integers, Sequences, FiniteSets, TLC

\* ------------------------------------------------------------------------
\* Program constants
\* ------------------------------------------------------------------------
CHECK_INTERVAL_MIN == 60
NOTIF_PCT_DEFAULT == 2

\* ------------------------------------------------------------------------
\* Bounds of the model
\* ------------------------------------------------------------------------
MaxTime == 61
MaxRequests == 1
MaxRestarts == 1
TimeStep == 30

Chats == {"c1", "c2"}
ChatOrder == <<"c1", "c2">>
Syms == {"AAPL", "MSFT"}
\* the (chat, symbol) pairs the messages name, and the prices the provider
\* quotes for each symbol
WatchPairs == {<<"c1", "AAPL">>, <<"c1", "MSFT">>, <<"c2", "MSFT">>}
NotifyPairs == {<<"c1", "AAPL">>}
UnwatchPairs == {<<"c1", "AAPL">>}
ListChats == {"c1"}
Prices == {100, 103, 105, 106}
PricesOf(s) == IF s = "AAPL" THEN Prices ELSE {100}
Pcts == {0, 5}

\* JSON null, and a key that is not in the dict
None == -1
Missing == -2
\* outcomes of a price fetch that deliver no price
FetchNone == -1
FetchRaise == -3
NoTime == -1
NoChat == "-"
NoSym == "-"

\* what get_last_price(sym) can deliver
Outcomes(s) == PricesOf(s) \cup {FetchNone, FetchRaise}

Abs(x) == IF x < 0 THEN -x ELSE x

NoSent == [t |-> NoTime, price |-> None, run |-> 0]
NoReq == [chat |-> NoChat, kind |-> "none", sym |-> NoSym, pct |-> 0]
NoUsers == [c \in {} |-> 0]
NoPrices == [k \in {} |-> 0]
EmptyCfg == [pct |-> Missing, baseline |-> Missing, last_notif_ts |-> 0]
NoCfg == [pct |-> Missing, baseline |-> Missing, last_notif_ts |-> NoTime]

VARIABLES
    file,         \* content of users.json
    now,          \* wall clock, minutes
    lpc,          \* notify_loop: "load", "eval" or "sleep"
    lusers,       \* notify_loop: the dict returned by load_users()
    lci, lsi,     \* notify_loop: position in users.items() and in favs
    last_prices,  \* notify_loop: local dict last_prices
    wpc,          \* webhook request in flight: "idle" or "loaded"
    wusers,       \* webhook: the dict returned by load_users()
    wreq,         \* webhook: the message being handled
    nreq,         \* number of webhook requests received
    nrst,         \* number of process restarts
    lastSent,     \* history: the last notification per (chat, symbol): time, price, process run
    acked,        \* history: pairs acknowledged as added by /watch and not removed since
    evaluated,    \* history: pairs whose price was fetched in the current tick
    sentTick,     \* history: pairs notified in the current tick
    failedTick,   \* history: whether a fetch failed in the current tick
    loaded0,      \* history: the dict as load_users() returned it in this tick
    ev,           \* history: the step just taken
    alerts,       \* Server.py: rows of the alerts table, in id order
    nextId,       \* Server.py: next AUTOINCREMENT id
    apc,          \* alert_worker: "select", "eval", "sleep" or "recover"
    arows,        \* alert_worker: rows of the current pass
    ai,           \* alert_worker: index of the row in hand
    aEval,        \* history: ids of the rows reached in the current pass
    aFail,        \* history: whether a price fetch failed in the current pass
    aSent,        \* history: ids of the alerts messaged in the current pass
    aSentPrev,    \* history: ids of the alerts messaged in the pass before
    aev,          \* history: the alert_worker step just taken
    mprog,        \* which of app.py and bot.py serves the webhook
    umode,        \* users.json: the "mode" key of each chat's record
    mev,          \* history: the message just handled
    mfile,        \* notifiche.py: content of users.json
    mclock,       \* notifiche.py: wall clock, seconds
    mpc,          \* monitor_loop: "off", "load", "eval" or "sleep"
    mnow,         \* monitor_loop: now, taken at the top of the tick
    musers,       \* monitor_loop: the dict returned by load_user_data()
    mci, msi,     \* monitor_loop: position in users.items() and in notifications
    mticks,       \* number of ticks started
    mStamp,       \* history: last_notif_ts of the last notification per (chat, ticker)
    mFetched,     \* history: pairs whose price fetch was attempted in the current tick
    mFailed,      \* history: pairs whose price fetch failed in the current tick
    mRetry,       \* history: pairs whose price fetch failed in the tick before
    fev,          \* history: the monitor_loop step just taken
    bthread,      \* notifiche.py: the global _monitor_thread (0 is None)
    bthreads,     \* the Thread objects created so far: "new" or "alive"
    bpc,          \* start_background: each caller's position
    bcalls,       \* number of calls of start_background made
    secret,       \* server.py: whether TELEGRAM_SECRET_TOKEN is configured
    price_alerts, \* server.py: items of the dict price_alerts, in insertion order
    price_change_subscriptions,  \* server.py: items of that dict, in insertion order
    srv_last_prices,  \* server.py: the dict last_prices
    spc,          \* check_price_alerts: "start", "achat", "alert", "sub" or "sleep"
    saItems,      \* check_price_alerts: keys of list(price_alerts.items())
    sai,          \* check_price_alerts: index in saItems
    saCopy,       \* check_price_alerts: alerts[:] of the chat in hand
    saj,          \* check_price_alerts: index in saCopy
    ssItems,      \* check_price_alerts: list(price_change_subscriptions.items())
    ssi, ssj,     \* check_price_alerts: index in ssItems and in its symbols
    sreqs,        \* number of webhook requests received
    spasses,      \* number of passes of check_price_alerts started
    snextId,      \* history: number of alerts created so far, plus one
    sNotified,    \* history: messages sent per fixed alert
    sStopped,     \* history: chats whose monitoring was stopped and confirmed
    sBase,        \* history: per symbol, the price at the start of monitoring or at the last alert
    sPassRef,     \* history: last_prices as the current pass found it
    sev,          \* history: the server.py step just taken
    binit,        \* Server.py: the global _bot_initialized
    hpc,          \* Server.py webhook: each request thread's position
    hreqs,        \* number of webhook requests received by Server.py
    iev,          \* history: the webhook step just taken
    mainpc,       \* Server.py __main__: "off", "start", "wait", "create", "serve" or "crashed"
    aloop,        \* the event loop of get_event_loop(): "stopped" or "running"
    aready,       \* that loop's tasks that are ready to run
    atask,        \* the alert_worker task: "none", "pending" or "running"
    dclock,       \* daily report: wall clock, minutes since midnight of the first day
    dpc,          \* daily report: notify_loop at "off", "tick" or "sleep"
    dmarker,      \* users.json: the key _last_daily_ts (0 is absent)
    dw,           \* a webhook request in flight: the marker its load_users() saw, or NoTime
    dreqs,        \* number of webhook requests received
    drst,         \* number of process restarts
    dLast,        \* history: when the last automatic daily report was sent
    dev           \* history: the step just taken

nvars == <<file, now, lpc, lusers, lci, lsi, last_prices, wpc, wusers, wreq, nreq, nrst,
           lastSent, acked, evaluated, sentTick, failedTick, loaded0, ev>>
avars == <<alerts, nextId, apc, arows, ai, aEval, aFail, aSent, aSentPrev, aev>>
mvars == <<mprog, umode, mev>>
fvars == <<mfile, mclock, mpc, mnow, musers, mci, msi, mticks, mStamp, mFetched, mFailed,
           mRetry, fev>>
bvars == <<bthread, bthreads, bpc, bcalls>>
svars == <<secret, price_alerts, price_change_subscriptions, srv_last_prices, spc, saItems,
           sai, saCopy, saj, ssItems, ssi, ssj, sreqs, spasses, snextId, sNotified, sStopped,
           sBase, sPassRef, sev>>
ivars == <<binit, hpc, hreqs, iev, mainpc, aloop, aready, atask>>
dvars == <<dclock, dpc, dmarker, dw, dreqs, drst, dLast, dev>>
ovars == <<mvars, fvars, bvars, svars, ivars, dvars>>
vars == <<nvars, avars, ovars>>

\* ------------------------------------------------------------------------
\* Persistence
\* ------------------------------------------------------------------------
\* load_users(): the whole file
LoadUsers(f) == f

\* a save_users that merges into the file instead of replacing it: entries
\* that only the file has are kept
SaveUsersMerge(data, old) ==
    [c \in (DOMAIN data) \cup (DOMAIN old) |->
        IF c \notin DOMAIN data THEN old[c]
        ELSE IF c \notin DOMAIN old THEN data[c]
        ELSE [favorites |-> data[c].favorites \o
                  SelectSeq(old[c].favorites,
                            LAMBDA x : \A i \in 1..Len(data[c].favorites) :
                                           data[c].favorites[i] # x),
              notifications |->
                  [x \in (DOMAIN data[c].notifications) \cup (DOMAIN old[c].notifications) |->
                      IF x \in DOMAIN data[c].notifications
                      THEN data[c].notifications[x]
                      ELSE old[c].notifications[x]]]]

\* save_users(data): the whole file is replaced by data
SaveUsers(data, old) == data

\* ------------------------------------------------------------------------
\* Dict helpers
\* ------------------------------------------------------------------------
Put(f, k, v) == [x \in (DOMAIN f) \cup {k} |-> IF x = k THEN v ELSE f[x]]
Drop(f, k) == [x \in (DOMAIN f) \ {k} |-> f[x]]
InSeq(s, x) == \E i \in 1..Len(s) : s[i] = x
Remove(s, x) == SelectSeq(s, LAMBDA y : y # x)

Favs(u, c) == IF c \in DOMAIN u THEN u[c].favorites ELSE <<>>
Notifs(u, c) == IF c \in DOMAIN u THEN u[c].notifications ELSE NoPrices
InFavs(u, c, s) == InSeq(Favs(u, c), s)
HasCfg(u, c, s) == s \in DOMAIN Notifs(u, c)
CfgOf(u, c, s) == IF HasCfg(u, c, s) THEN Notifs(u, c)[s] ELSE NoCfg
FavPairs(u) == {p \in Chats \X Syms : InFavs(u, p[1], p[2])}

\* ------------------------------------------------------------------------
\* notify_loop: evaluation of one favourite
\* ------------------------------------------------------------------------
\* pct_thr = float(cfg.get("pct", NOTIF_PCT_DEFAULT))
PctThr(cfg) == IF cfg.pct = Missing THEN NOTIF_PCT_DEFAULT ELSE cfg.pct

\* prev or price
PrevOr(prev, price) == IF prev # None /\ prev # 0 THEN prev ELSE price

\* baseline = cfg.get("baseline", prev or price)
Baseline(cfg, prev, price) ==
    IF cfg.baseline = Missing THEN PrevOr(prev, price) ELSE cfg.baseline

\* the comparison with > in place of >=
ExceedsStrict(price, baseline, pct) ==
    Abs(price - baseline) * 100 > pct * Abs(baseline)

\* abs((price - baseline) / baseline * 100.0) >= pct_thr, for baseline # 0
Exceeds(price, baseline, pct) ==
    Abs(price - baseline) * 100 >= pct * Abs(baseline)

\* last_ts and (now - last_dt) < timedelta(minutes=CHECK_INTERVAL_MIN)
Debounced(last_ts, t) ==
    last_ts # 0 /\ (t - last_ts) < CHECK_INTERVAL_MIN

\* send_flag
SendFlag(cfg, baseline, price, t) ==
    /\ Exceeds(price, baseline, PctThr(cfg))
    /\ ~Debounced(cfg.last_notif_ts, t)

\* a cold-start test that only looks for a missing key
ColdStartKeyOnly(cfg, prev, price) == cfg.baseline = Missing

\* cold start: the entry has a null baseline
ColdStart(cfg, prev, price) == Baseline(cfg, prev, price) = None

\* a quiet pass that lets the baseline trail the price
QuietRebase(cfg, price) ==
    [cfg |-> [cfg EXCEPT !.baseline = price],
     write |-> TRUE, send |-> FALSE, setprev |-> TRUE, failed |-> FALSE]

\* send_flag is False: nothing but last_prices[key] = price
Quiet(cfg, price) ==
    [cfg |-> cfg, write |-> FALSE, send |-> FALSE, setprev |-> TRUE, failed |-> FALSE]

\* The body of the inner try for one symbol: what it does to cfg, whether it
\* stores cfg and saves, whether it sends, whether last_prices[key] is set.
Step(cfg, prev, outcome, t) ==
    IF outcome \in {FetchNone, FetchRaise}
    THEN [cfg |-> cfg, write |-> FALSE, send |-> FALSE, setprev |-> FALSE, failed |-> TRUE]
    ELSE IF ColdStart(cfg, prev, outcome)
    THEN [cfg |-> [cfg EXCEPT !.baseline = outcome],
          write |-> TRUE, send |-> FALSE, setprev |-> FALSE, failed |-> FALSE]
    ELSE IF Baseline(cfg, prev, outcome) = 0
    THEN [cfg |-> cfg, write |-> FALSE, send |-> FALSE, setprev |-> FALSE, failed |-> TRUE]
    ELSE IF SendFlag(cfg, Baseline(cfg, prev, outcome), outcome, t)
    THEN [cfg |-> [cfg EXCEPT !.last_notif_ts = t, !.baseline = outcome],
          write |-> TRUE, send |-> TRUE, setprev |-> TRUE, failed |-> FALSE]
    ELSE Quiet(cfg, outcome)

\* ------------------------------------------------------------------------
\* notify_loop: iteration over users.items() and favs
\* ------------------------------------------------------------------------
Done == Len(ChatOrder) + 1

RECURSIVE Norm(_, _, _)
Norm(u, ci, si) ==
    IF ci > Len(ChatOrder) THEN <<Done, 1>>
    ELSE IF si > Len(Favs(u, ChatOrder[ci])) THEN Norm(u, ci + 1, 1)
    ELSE <<ci, si>>

\* a try that encloses the whole for loop: a failure ends the tick
AfterEvalAbort(u, ci, si, failed) ==
    IF failed THEN <<Done, 1>> ELSE Norm(u, ci, si + 1)

\* the position after one symbol: "continue", the end of the try body and
\* the except clause all go on with the next symbol
AfterEval(u, ci, si, failed) == Norm(u, ci, si + 1)

\* ------------------------------------------------------------------------
\* webhook (app.py / bot.py): the commands that touch favourites and
\* notification entries
\* ------------------------------------------------------------------------
NewUser == [favorites |-> <<>>, notifications |-> NoPrices]
FreshCfg == [pct |-> NOTIF_PCT_DEFAULT, baseline |-> None, last_notif_ts |-> 0]

\* if chat_id not in users: users[chat_id] = {...}; save_users(users)
WithChat(u, c) == IF c \in DOMAIN u THEN u ELSE Put(u, c, NewUser)

\* /watch TICKER
Watch(u, c, s) ==
    IF InFavs(u, c, s) THEN u
    ELSE [u EXCEPT ![c] = [favorites |-> Append(u[c].favorites, s),
                           notifications |-> Put(u[c].notifications, s, FreshCfg)]]

\* /unwatch TICKER
Unwatch(u, c, s) ==
    IF ~InFavs(u, c, s) THEN u
    ELSE [u EXCEPT ![c] = [favorites |-> Remove(u[c].favorites, s),
                           notifications |-> IF s \in DOMAIN u[c].notifications
                                             THEN Drop(u[c].notifications, s)
                                             ELSE u[c].notifications]]

\* /notify TICKER PCT: users[chat_id]["notifications"].setdefault(sym, {})["pct"] = pct
Notify(u, c, s, pct) ==
    LET old == IF s \in DOMAIN u[c].notifications THEN u[c].notifications[s] ELSE EmptyCfg
    IN [u EXCEPT ![c].notifications = Put(@, s, [old EXCEPT !.pct = pct])]

\* the dict the handler ends with
Handle(u, req) ==
    LET u1 == WithChat(u, req.chat) IN
    CASE req.kind = "watch" -> Watch(u1, req.chat, req.sym)
      [] req.kind = "unwatch" -> Unwatch(u1, req.chat, req.sym)
      [] req.kind = "notify" -> Notify(u1, req.chat, req.sym, req.pct)
      [] OTHER -> u1

\* whether the handler calls save_users at all
Saves(u, req) ==
    \/ req.chat \notin DOMAIN u
    \/ req.kind = "watch" /\ ~InFavs(u, req.chat, req.sym)
    \/ req.kind = "unwatch" /\ InFavs(u, req.chat, req.sym)
    \/ req.kind = "notify"

Requests ==
    {[chat |-> p[1], kind |-> "watch", sym |-> p[2], pct |-> 0] : p \in WatchPairs}
    \cup {[chat |-> p[1], kind |-> "unwatch", sym |-> p[2], pct |-> 0] : p \in UnwatchPairs}
    \cup {[chat |-> p[1], kind |-> "notify", sym |-> p[2], pct |-> q] :
        p \in NotifyPairs, q \in Pcts}
    \cup {[chat |-> c, kind |-> "list", sym |-> NoSym, pct |-> 0] : c \in ListChats}

Event(kind) ==
    [kind |-> kind, chat |-> NoChat, sym |-> NoSym, price |-> FetchNone, pre |-> NoCfg,
     sent |-> FALSE, saved |-> FALSE, failed |-> FALSE, prevSent |-> NoSent, lost |-> {}]

\* users.json as earlier runs left it: absent, or written by the /watch
\* commands of two chats
Watched ==
    Watch(Watch(Watch(WithChat(WithChat(NoUsers, "c1"), "c2"),
                      "c1", "AAPL"), "c1", "MSFT"), "c2", "MSFT")
\* ... or by /watch AAPL, /notify AAPL pct and a first tick at price 100
Based(pct) ==
    LET u == Notify(Watch(WithChat(NoUsers, "c1"), "c1", "AAPL"), "c1", "AAPL", pct)
    IN [u EXCEPT !["c1"].notifications["AAPL"].baseline = 100]
InitFiles == {NoUsers, Watched} \cup {Based(q) : q \in Pcts}

\* ------------------------------------------------------------------------
\* webhook (app.py / bot.py): the "mode" key of a chat's record
\* ------------------------------------------------------------------------
Programs == {"app", "bot"}
ModeNull == "null"
\* a chat without a record
NoRecord == "norecord"

\* the button "Chat AI": app.py uses setdefault("mode", "chat"), which leaves a
\* key that is present as it is ("absent" stands for a record without the
\* key); bot.py assigns
ChatButton(prog, m) == IF prog = "app" /\ m # "absent" THEN m ELSE "chat"

\* the branch that handles a text that is neither command nor button
FreeBranch(m) ==
    CASE m = "search" -> "search"
      [] m = "chat" -> "chat"
      [] m = "analysis_prompt" -> "analysis"
      [] OTHER -> "heuristic"

\* the "mode" key of the record after the handler has returned
ModeAfter(prog, m, kind) ==
    CASE kind = "btn_search" -> "search"
      [] kind = "btn_chat" -> ChatButton(prog, m)
      [] kind = "btn_analysis" -> "analysis_prompt"
      [] kind = "free" -> IF m \in {"search", "analysis_prompt"} THEN ModeNull ELSE m
      [] OTHER -> m

NoMsg == [chat |-> NoChat, kind |-> "none", pre |-> NoRecord, post |-> NoRecord,
          branch |-> "none"]

\* ------------------------------------------------------------------------
\* notifiche.py: monitor_loop over the "notifications" of users.json
\* (no Google sheet is configured: read_notifications_sheet returns [])
\* ------------------------------------------------------------------------
LOOP_SLEEP == 20
MON_PCT_DEFAULT == 5
MON_INTERVAL_DEFAULT == 15
MaxTicks == 5
\* the seconds a slow tick takes on top of LOOP_SLEEP
MonDelay == 880

MonPrices == {100, 106}

MonEntry(pct, interval) ==
    [pct |-> pct, interval_min |-> interval, both |-> Missing, direction |-> Missing,
     last_notif_ts |-> 0, baseline_price |-> Missing]
NoEntry == [MonEntry(Missing, Missing) EXCEPT !.last_notif_ts = NoTime]

\* users.json as its editor left it: chat c1 with a per-ticker interval of
\* one minute and chat c2 with no interval at all; or chat c1 with a
\* notification_interval_default of two minutes
MonFiles ==
  { [c \in {"c1", "c2"} |->
        IF c = "c1"
        THEN [notifications |-> [x \in {"AAPL"} |-> MonEntry(5, 1)],
              notification_interval_default |-> Missing]
        ELSE [notifications |-> [x \in {"AAPL"} |-> MonEntry(Missing, Missing)],
              notification_interval_default |-> Missing]],
    [c \in {"c1"} |->
        [notifications |-> [x \in {"AAPL", "MSFT"} |->
                               IF x = "AAPL" THEN MonEntry(5, Missing) ELSE MonEntry(5, 1)],
         notification_interval_default |-> 2]] }

MonPairs(u) == {p \in Chats \X Syms : p[1] \in DOMAIN u /\ p[2] \in DOMAIN u[p[1]].notifications}
MonCfg(u, c, x) == IF <<c, x>> \in MonPairs(u) THEN u[c].notifications[x] ELSE NoEntry

\* list(notifications.items()) of one user
MonTickers(u, c) ==
    IF c \in DOMAIN u
    THEN SelectSeq(<<"AAPL", "MSFT">>, LAMBDA x : x \in DOMAIN u[c].notifications)
    ELSE <<>>

RECURSIVE MonNorm(_, _, _)
MonNorm(u, ci, si) ==
    IF ci > Len(ChatOrder) THEN <<Done, 1>>
    ELSE IF si > Len(MonTickers(u, ChatOrder[ci])) THEN MonNorm(u, ci + 1, 1)
    ELSE <<ci, si>>

\* interval = int(cfg.get("interval_min", u.get("notification_interval_default", 15)))
MonInterval(cfg, u) ==
    IF cfg.interval_min # Missing THEN cfg.interval_min
    ELSE IF u.notification_interval_default # Missing THEN u.notification_interval_default
    ELSE MON_INTERVAL_DEFAULT

\* a test that takes the minutes of the interval for seconds
MonDebouncedSeconds(cfg, u, t) ==
    cfg.last_notif_ts # 0 /\ (t - cfg.last_notif_ts) < MonInterval(cfg, u)

\* last_notif_ts and (now - last_dt) < timedelta(minutes=interval)
MonDebounced(cfg, u, t) ==
    cfg.last_notif_ts # 0 /\ (t - cfg.last_notif_ts) < MonInterval(cfg, u) * 60

\* triggered, for a baseline above zero
MonTriggered(cfg, price) ==
    LET b == cfg.baseline_price
        pct == IF cfg.pct = Missing THEN MON_PCT_DEFAULT ELSE cfg.pct
        both == IF cfg.both = Missing THEN TRUE ELSE cfg.both
        direction == IF cfg.direction = Missing THEN "both" ELSE cfg.direction
        up == (price - b) * 100 >= pct * b
        down == (price - b) * 100 <= (0 - pct) * b
        any == Abs(price - b) * 100 >= pct * b
    IN IF both THEN any
       ELSE IF direction = "up" THEN up
       ELSE IF direction = "down" THEN down
       ELSE any

\* a failed fetch that throws the baseline away
MonFailReset(cfg) ==
    [cfg |-> [cfg EXCEPT !.baseline_price = None],
     write |-> TRUE, send |-> FALSE, fetched |-> TRUE, failed |-> TRUE]

\* price is None: continue
MonFail(cfg) ==
    [cfg |-> cfg, write |-> FALSE, send |-> FALSE, fetched |-> TRUE, failed |-> TRUE]

\* the body of "for ticker, cfg in list(notifications.items())" for one ticker
MonStep(cfg, u, outcome, t) ==
    IF MonDebounced(cfg, u, t)
    THEN [cfg |-> cfg, write |-> FALSE, send |-> FALSE, fetched |-> FALSE, failed |-> FALSE]
    ELSE IF outcome = FetchNone
    THEN MonFail(cfg)
    ELSE IF cfg.baseline_price \in {Missing, None, 0}
    THEN [cfg |-> [cfg EXCEPT !.baseline_price = outcome],
          write |-> TRUE, send |-> FALSE, fetched |-> TRUE, failed |-> FALSE]
    ELSE IF MonTriggered(cfg, outcome)
    THEN [cfg |-> [cfg EXCEPT !.last_notif_ts = t, !.baseline_price = outcome],
          write |-> TRUE, send |-> TRUE, fetched |-> TRUE, failed |-> FALSE]
    ELSE [cfg |-> cfg, write |-> FALSE, send |-> FALSE, fetched |-> TRUE, failed |-> FALSE]

MonEvent(kind) ==
    [kind |-> kind, chat |-> NoChat, sym |-> NoSym, price |-> FetchNone, pre |-> NoEntry,
     interval |-> 0, fetched |-> FALSE, sent |-> FALSE, saved |-> FALSE, failed |-> FALSE,
     prevStamp |-> NoTime]

InitMonitorOff ==
    /\ mfile = NoUsers
    /\ mclock = 0
    /\ mpc = "off"
    /\ mnow = 0
    /\ musers = NoUsers
    /\ mci = 1
    /\ msi = 1
    /\ mticks = 0
    /\ mStamp = [p \in Chats \X Syms |-> NoTime]
    /\ mFetched = {}
    /\ mFailed = {}
    /\ mRetry = {}
    /\ fev = MonEvent("init")

\* ------------------------------------------------------------------------
\* notifiche.py: start_background
\* ------------------------------------------------------------------------
MaxCalls == 4
Callers == {1, 2, 3}

\* ------------------------------------------------------------------------
\* server.py: fixed price alerts, price-change subscriptions, the webhook
\* ------------------------------------------------------------------------
MaxSrvRequests == 2
MaxPasses == 2
MaxSrvAlerts == 2

SrvSyms == {"BTC"}
\* what get_best_price(symbol) can deliver besides None
SrvPrices == {100, 103, 106}

\* dict helpers over the items of a dict, kept in insertion order
ItemIndex(items, c) ==
    IF \E i \in 1..Len(items) : items[i].chat = c
    THEN CHOOSE i \in 1..Len(items) : items[i].chat = c
    ELSE 0
HasItem(items, c) == ItemIndex(items, c) # 0

\* the alerts /alerts would list, over all chats
ListedIds(pa) ==
    UNION {{pa[i].alerts[j].id : j \in 1..Len(pa[i].alerts)} : i \in 1..Len(pa)}

\* add_price_alert: setdefault of the chat's list, append
AddAlert(pa, c, alert) ==
    IF HasItem(pa, c)
    THEN [pa EXCEPT ![ItemIndex(pa, c)].alerts = Append(@, alert)]
    ELSE Append(pa, [chat |-> c, alerts |-> <<alert>>])

\* a pass that leaves the triggered alert in the list
RemoveAlertKept(pa, c, alert) == pa

\* price_alerts[chat_id].remove(alert)
RemoveAlertOf(pa, c, alert) ==
    [pa EXCEPT ![ItemIndex(pa, c)].alerts = SelectSeq(@, LAMBDA a : a.id # alert.id)]

\* direction == "below" and current_price <= target_price, or
\* direction == "above" and current_price >= target_price
SrvTriggered(alert, price) ==
    \/ alert.direction = "below" /\ price <= alert.target_price
    \/ alert.direction = "above" /\ price >= alert.target_price

\* price_change_subscriptions[chat_id] = {"symbols": ..., "threshold": ...}
Subscribe(subs, c, symbols, thr) ==
    IF HasItem(subs, c)
    THEN [subs EXCEPT ![ItemIndex(subs, c)] = [chat |-> c, symbols |-> symbols, threshold |-> thr]]
    ELSE Append(subs, [chat |-> c, symbols |-> symbols, threshold |-> thr])

\* for symbol in symbols: price = get_best_price(symbol); if price: last_prices[symbol] = price
RECURSIVE InitLast(_, _, _)
InitLast(last, symbols, outs) ==
    IF symbols = <<>> THEN last
    ELSE LET x == Head(symbols)
             l1 == IF outs[x] # FetchNone /\ outs[x] # 0 THEN Put(last, x, outs[x]) ELSE last
         IN InitLast(l1, Tail(symbols), outs)

\* abs(change_percent) >= threshold, for a last price above zero
SrvChanged(price, last, thr) == Abs(price - last) * 100 >= thr * last

\* a test that lets a request without the header pass
TokenOkLax(sec, header) == ~sec \/ header = "good" \/ header = "missing"

\* not (TELEGRAM_SECRET_TOKEN and (not header_token or header_token != TELEGRAM_SECRET_TOKEN))
TokenOk(sec, header) == ~sec \/ header = "good"

SrvRequests ==
    {[kind |-> "alert", chat |-> "c1", symbols |-> <<"BTC">>, direction |-> d, target |-> t]
        : d \in {"below", "above"}, t \in {103}}
    \cup {[kind |-> "monitora", chat |-> c, symbols |-> l, direction |-> "-", target |-> t]
        : c \in {"c1", "c2"}, l \in {<<"BTC">>}, t \in {5}}
    \cup {[kind |-> k, chat |-> c, symbols |-> <<>>, direction |-> "-", target |-> 0]
        : k \in {"stopmonitora", "cb_stopmonitor"}, c \in {"c1", "c2"}}
    \cup {[kind |-> k, chat |-> "c1", symbols |-> <<>>, direction |-> "-", target |-> 0]
        : k \in {"monitora_bad", "alerts", "text"}}

SrvEvent(kind) ==
    [kind |-> kind, rkind |-> "-", chat |-> NoChat, sym |-> NoSym, price |-> FetchNone,
     ref |-> None, base |-> None, passRef |-> None, thr |-> 0, sent |-> FALSE, aid |-> 0,
     hit |-> FALSE, status |-> 0, out |-> 0, header |-> "-", stopped |-> FALSE,
     pre |-> <<>>]

InitServerOff ==
    /\ secret = FALSE
    /\ price_alerts = <<>>
    /\ price_change_subscriptions = <<>>
    /\ srv_last_prices = NoPrices
    /\ spc = "off"
    /\ saItems = <<>>
    /\ sai = 1
    /\ saCopy = <<>>
    /\ saj = 1
    /\ ssItems = <<>>
    /\ ssi = 1
    /\ ssj = 1
    /\ sreqs = 0
    /\ spasses = 0
    /\ snextId = 1
    /\ sNotified = [i \in 1..MaxSrvAlerts |-> 0]
    /\ sStopped = {}
    /\ sBase = NoPrices
    /\ sPassRef = NoPrices
    /\ sev = SrvEvent("init")

\* ------------------------------------------------------------------------
\* Server.py: ensure_initialized, the webhook, the __main__ block
\* ------------------------------------------------------------------------
MaxHooks == 4
Hooks == {1, 2}

HookEvent(kind) ==
    [kind |-> kind, hook |-> 0, flag |-> FALSE, ok |-> TRUE, status |-> 0]

InitProcOff ==
    /\ binit = FALSE
    /\ hpc = [k \in Hooks |-> "idle"]
    /\ hreqs = 0
    /\ iev = HookEvent("init")
    /\ mainpc = "off"
    /\ aloop = "stopped"
    /\ aready = <<>>
    /\ atask = "none"

\* ------------------------------------------------------------------------
\* app.py, bot.py: the automatic daily report of notify_loop
\* ------------------------------------------------------------------------
DAILY_REPORT_HOUR == 9
MaxDailyTime == 2000
MaxDailyReqs == 2
MaxDailyRestarts == 1

\* now.hour == DAILY_REPORT_HOUR and now.minute < 2
InWindow(t) == (t % 1440) \div 60 = DAILY_REPORT_HOUR /\ (t % 60) < 2

DailyEvent(kind) == [kind |-> kind, now |-> NoTime, sent |-> FALSE, prev |-> NoTime]

InitDailyOff ==
    /\ dclock = 0
    /\ dpc = "off"
    /\ dmarker = 0
    /\ dw = NoTime
    /\ dreqs = 0
    /\ drst = 0
    /\ dLast = NoTime
    /\ dev = DailyEvent("init")

InitNotify ==
    /\ file \in InitFiles
    /\ now = 1
    /\ lpc = "load"
    /\ lusers = NoUsers
    /\ lci = 1
    /\ lsi = 1
    /\ last_prices = NoPrices
    /\ wpc = "idle"
    /\ wusers = NoUsers
    /\ wreq = NoReq
    /\ nreq = 0
    /\ nrst = 0
    /\ lastSent = [p \in Chats \X Syms |-> NoSent]
    /\ acked = FavPairs(file)
    /\ evaluated = {}
    /\ sentTick = {}
    /\ failedTick = FALSE
    /\ loaded0 = NoUsers
    /\ ev = Event("init")

\* the alerts table, the chat modes and start_background before any of them ran
InitIdle ==
    /\ alerts = <<>>
    /\ nextId = 1
    /\ apc = "select"
    /\ arows = <<>>
    /\ ai = 1
    /\ aEval = {}
    /\ aFail = FALSE
    /\ aSent = {}
    /\ aSentPrev = {}
    /\ aev = [kind |-> "init", id |-> 0, price |-> FetchNone, sent |-> FALSE]
    /\ umode = [c \in Chats |-> NoRecord]
    /\ mev = NoMsg
    /\ bthread = 0
    /\ bthreads = <<>>
    /\ bpc = [k \in Callers |-> "idle"]
    /\ bcalls = 0

Init ==
    /\ InitNotify
    /\ InitIdle
    /\ mprog = "app"
    /\ InitMonitorOff
    /\ InitServerOff
    /\ InitProcOff
    /\ InitDailyOff

wvars == <<wpc, wusers, wreq, nreq, nrst, acked>>
lhist == <<evaluated, sentTick, failedTick, loaded0>>

\* users = load_users() at the top of the while loop
LoopLoad ==
    /\ lpc = "load"
    /\ lusers' = LoadUsers(file)
    /\ LET pos == Norm(lusers', 1, 1) IN
        /\ lci' = pos[1]
        /\ lsi' = pos[2]
        /\ lpc' = IF pos[1] = Done THEN "sleep" ELSE "eval"
    /\ evaluated' = {}
    /\ sentTick' = {}
    /\ failedTick' = FALSE
    /\ loaded0' = lusers'
    /\ ev' = Event("load")
    /\ UNCHANGED <<file, now, last_prices, lastSent>>
    /\ UNCHANGED wvars
    /\ UNCHANGED avars
    /\ UNCHANGED ovars

\* one pass of "for sym in favs" for the symbol at the current position
LoopEval(outcome) ==
    /\ lpc = "eval"
    /\ outcome \in Outcomes(Favs(lusers, ChatOrder[lci])[lsi])
    /\ LET c == ChatOrder[lci]
           s == Favs(lusers, c)[lsi]
           key == <<c, s>>
           cfg == IF HasCfg(lusers, c, s) THEN Notifs(lusers, c)[s] ELSE EmptyCfg
           prev == IF key \in DOMAIN last_prices THEN last_prices[key] ELSE None
           r == Step(cfg, prev, outcome, now)
           pos == AfterEval(lusers, lci, lsi, r.failed)
       IN
        /\ lusers' = IF r.write
                     THEN [lusers EXCEPT ![c].notifications = Put(@, s, r.cfg)]
                     ELSE lusers
        /\ file' = IF r.write THEN SaveUsers(lusers', file) ELSE file
        /\ last_prices' = IF r.setprev THEN Put(last_prices, key, outcome) ELSE last_prices
        /\ lastSent' = IF r.send
                       THEN [lastSent EXCEPT ![key] = [t |-> now, price |-> outcome, run |-> nrst]]
                       ELSE lastSent
        /\ lci' = pos[1]
        /\ lsi' = pos[2]
        /\ lpc' = IF pos[1] = Done THEN "sleep" ELSE "eval"
        /\ evaluated' = evaluated \cup {key}
        /\ sentTick' = IF r.send THEN sentTick \cup {key} ELSE sentTick
        /\ failedTick' = (failedTick \/ r.failed)
        /\ ev' = [kind |-> "eval", chat |-> c, sym |-> s, price |-> outcome,
                  pre |-> IF HasCfg(lusers, c, s) THEN cfg ELSE NoCfg,
                  sent |-> r.send, saved |-> r.write, failed |-> r.failed,
                  prevSent |-> lastSent[key],
                  lost |-> IF r.write
                           THEN {p \in acked : InFavs(file, p[1], p[2])
                                               /\ ~InFavs(lusers, p[1], p[2])}
                           ELSE {}]
    /\ UNCHANGED <<now, loaded0>>
    /\ UNCHANGED wvars
    /\ UNCHANGED avars
    /\ UNCHANGED ovars

\* a sleep that takes the minutes for seconds
SleepSecondsShort == CHECK_INTERVAL_MIN

\* time.sleep(CHECK_INTERVAL_MIN * 60)
SleepSeconds == CHECK_INTERVAL_MIN * 60

LoopSleep ==
    /\ lpc = "sleep"
    /\ now + (SleepSeconds \div 60) <= MaxTime
    /\ now' = now + (SleepSeconds \div 60)
    /\ lpc' = "load"
    /\ ev' = Event("sleep")
    /\ UNCHANGED <<file, lusers, lci, lsi, last_prices, lastSent>>
    /\ UNCHANGED lhist
    /\ UNCHANGED wvars
    /\ UNCHANGED avars
    /\ UNCHANGED ovars

\* the loop oversleeps, or the process stays down for a while after a crash
Elapse ==
    /\ lpc = "load"
    /\ now + TimeStep <= MaxTime
    /\ now' = now + TimeStep
    /\ ev' = Event("elapse")
    /\ UNCHANGED <<file, lpc, lusers, lci, lsi, last_prices, lastSent>>
    /\ UNCHANGED lhist
    /\ UNCHANGED wvars
    /\ UNCHANGED avars
    /\ UNCHANGED ovars

\* the process dies and is started again: start_workers() starts a new
\* notify_loop, every local of the old threads is gone, users.json stays
Restart ==
    /\ nrst < MaxRestarts
    /\ nrst' = nrst + 1
    /\ lpc' = "load"
    /\ lusers' = NoUsers
    /\ lci' = 1
    /\ lsi' = 1
    /\ last_prices' = NoPrices
    /\ wpc' = "idle"
    /\ wusers' = NoUsers
    /\ wreq' = NoReq
    /\ evaluated' = {}
    /\ sentTick' = {}
    /\ failedTick' = FALSE
    /\ loaded0' = NoUsers
    /\ ev' = Event("restart")
    /\ UNCHANGED <<file, now, nreq, lastSent, acked>>
    /\ UNCHANGED avars
    /\ UNCHANGED ovars

\* a message arrives: users = load_users()
WLoad(req) ==
    /\ wpc = "idle"
    /\ nreq < MaxRequests
    /\ nreq' = nreq + 1
    /\ wpc' = "loaded"
    /\ wreq' = req
    /\ wusers' = LoadUsers(file)
    /\ ev' = Event("wload")
    /\ UNCHANGED <<file, now, lpc, lusers, lci, lsi, last_prices, lastSent, acked, nrst>>
    /\ UNCHANGED lhist
    /\ UNCHANGED avars
    /\ UNCHANGED ovars

\* the handler runs its command on the dict it loaded, saves and answers
WCmd ==
    /\ wpc = "loaded"
    /\ file' = IF Saves(wusers, wreq) THEN SaveUsers(Handle(wusers, wreq), file) ELSE file
    /\ wusers' = NoUsers
    /\ wreq' = NoReq
    /\ acked' = CASE wreq.kind = "watch" /\ ~InFavs(wusers, wreq.chat, wreq.sym)
                        -> acked \cup {<<wreq.chat, wreq.sym>>}
                  [] wreq.kind = "unwatch" /\ InFavs(wusers, wreq.chat, wreq.sym)
                        -> acked \ {<<wreq.chat, wreq.sym>>}
                  [] OTHER -> acked
    /\ wpc' = "idle"
    /\ ev' = [Event("wcmd") EXCEPT !.chat = wreq.chat, !.sym = wreq.sym,
                                   !.saved = Saves(wusers, wreq)]
    /\ UNCHANGED <<nreq, nrst, now, lpc, lusers, lci, lsi, last_prices, lastSent>>
    /\ UNCHANGED lhist
    /\ UNCHANGED avars
    /\ UNCHANGED ovars


NextRun ==
    \/ LoopLoad
    \/ \E o \in Prices \cup {FetchNone, FetchRaise} : LoopEval(o)
    \/ LoopSleep
    \/ Elapse
    \/ \E req \in Requests : WLoad(req)
    \/ WCmd

Next ==
    \/ NextRun
    \/ Restart

\* the bot with process restarts
Spec == Init /\ [][Next]_vars

\* the bot while one process keeps running
SpecRun == Init /\ [][NextRun]_vars

\* ------------------------------------------------------------------------
\* Properties of notify_loop and the webhook
\* ------------------------------------------------------------------------
EvalOf == <<ev.chat, ev.sym>>
GotPrice == ev.kind = "eval" /\ ev.price \in Prices
Stored(u) == CfgOf(u, ev.chat, ev.sym)

\* C1: a tick that obtains a price for an entry as /watch created it
\* (baseline null, last_notif_ts 0) stores exactly that price as the
\* baseline, in the loop's dict and in users.json, and sends no notification
\* for that pair in that tick.
C1_ColdStartSuppressed ==
    (GotPrice /\ ev.pre.baseline = None /\ ev.pre.last_notif_ts = 0)
        => /\ Stored(lusers).baseline = ev.price
           /\ Stored(file).baseline = ev.price
           /\ ~ev.sent
           /\ EvalOf \notin sentTick

C1_Witness ==
    /\ GotPrice /\ ev.pre = FreshCfg /\ ev.price = 103
    /\ Stored(file).baseline = 103

C3_NoRefireAtSamePrice ==
    /\ (ev.kind = "eval" /\ ev.sent)
          => /\ Stored(lusers).baseline = ev.price
             /\ Stored(lusers).last_notif_ts = now
             /\ Stored(file) = Stored(lusers)
    /\ (GotPrice /\ ev.pre.baseline = ev.price /\ ev.pre.last_notif_ts > 0)
          => ~ev.sent

C6_FailureIsolated ==
    (lpc = "sleep" /\ failedTick) => evaluated = FavPairs(loaded0)

C6_Witness ==
    /\ lpc = "sleep" /\ failedTick
    /\ evaluated = WatchPairs
    /\ GotPrice /\ ev.chat = "c2"

\* C8: a save_users of the loop replaces the file by the dict the loop
\* loaded at the start of its tick, so every favourite that /watch added and
\* acknowledged since, and that the loop's dict lacks, is absent afterwards.
C8_LostUpdate ==
    \A p \in ev.lost : ~InFavs(file, p[1], p[2])

C8_Witness ==
    /\ ev.kind = "eval" /\ ev.saved
    /\ \E p \in ev.lost : p \in acked /\ ~InFavs(file, p[1], p[2])

\* C9: the loop writes the new baseline and timestamp before it goes on, so
\* after a restart the notification for that symbol is not sent again at
\* the price of the last one.
C9_NoResendAfterRestart ==
    /\ (ev.kind = "eval" /\ ev.saved) => Stored(file) = Stored(lusers)
    /\ ~(/\ ev.kind = "eval" /\ ev.sent
         /\ ev.prevSent.t # NoTime
         /\ ev.prevSent.run < nrst
         /\ ev.prevSent.price = ev.price)

\* C10: during a tick, an entry that was loaded with a non-null baseline and
\* for which the tick has sent nothing is as it was loaded; the evaluation
\* that sends nothing for such an entry does not write the file.
C10_QuietTickFrame ==
    /\ lpc # "load" =>
          \A p \in Chats \X Syms :
              (/\ HasCfg(loaded0, p[1], p[2])
               /\ CfgOf(loaded0, p[1], p[2]).baseline \in Prices
               /\ p \notin sentTick)
                  => CfgOf(lusers, p[1], p[2]) = CfgOf(loaded0, p[1], p[2])
    /\ (ev.kind = "eval" /\ ev.pre.baseline \in Prices /\ ~ev.sent)
          => (~ev.saved /\ Stored(lusers) = ev.pre)

C10_Witness ==
    /\ GotPrice /\ ev.pre.baseline = 100 /\ ev.price = 103 /\ ~ev.sent
    /\ Stored(lusers).baseline = 100

\* ------------------------------------------------------------------------
\* webhook (app.py / bot.py): one text message, as far as "mode" goes
\* ------------------------------------------------------------------------
\* users = load_users(); a new chat gets a record with "mode": None; the
\* dispatcher runs the branch of the text and saves
Message(c, kind) ==
    /\ LET m == IF umode[c] = NoRecord THEN ModeNull ELSE umode[c]
           post == ModeAfter(mprog, m, kind)
       IN
        /\ umode' = [umode EXCEPT ![c] = post]
        /\ mev' = [chat |-> c, kind |-> kind, pre |-> m, post |-> post,
                   branch |-> IF kind = "free" THEN FreeBranch(m) ELSE kind]
    /\ UNCHANGED mprog
    /\ UNCHANGED nvars
    /\ UNCHANGED avars
    /\ UNCHANGED <<fvars, bvars, svars, ivars, dvars>>

InitMode ==
    /\ InitNotify
    /\ file = NoUsers
    /\ InitIdle
    /\ mprog \in Programs
    /\ InitMonitorOff
    /\ InitServerOff
    /\ InitProcOff
    /\ InitDailyOff

\* the webhook of app.py or of bot.py, receiving text messages. The
\* dispatcher tells apart: a slash command (/start, /help, /analizza, /watch,
\* /unwatch, /list, /notify), a menu button that sets no mode (menu,
\* categories, report), the three buttons that set one, and any other text
SpecMode ==
    /\ InitMode
    /\ [][\E c \in Chats,
             k \in {"command", "button", "btn_search", "btn_chat", "btn_analysis", "free"} :
             Message(c, k)]_vars

\* C11: a chat whose mode is search, analysis_prompt or chat has mode null
\* once its next text message has been handled, whatever the message is.
C11_ModeClearedByNextMessage ==
    (mev.kind # "none" /\ mev.pre \in {"search", "analysis_prompt", "chat"}) => mev.post = ModeNull

\* C21: in app.py, once the message "Chat AI" has been handled the chat's
\* stored mode is chat, so the chat's next free text takes the chat branch and
\* not the ticker/search heuristics
C21_ChatButtonSetsChatMode ==
    (mprog = "app" /\ mev.kind = "btn_chat") =>
        /\ umode[mev.chat] = "chat"
        /\ FreeBranch(umode[mev.chat]) = "chat"

\* ------------------------------------------------------------------------
\* notifiche.py: the ticks of monitor_loop
\* ------------------------------------------------------------------------
\* now = datetime.now(check_timezone); users = load_user_data()
MonLoad ==
    /\ mpc = "load"
    /\ mticks < MaxTicks
    /\ mticks' = mticks + 1
    /\ mnow' = mclock
    /\ musers' = mfile
    /\ LET pos == MonNorm(musers', 1, 1) IN
        /\ mci' = pos[1]
        /\ msi' = pos[2]
        /\ mpc' = IF pos[1] = Done THEN "sleep" ELSE "eval"
    /\ mFetched' = {}
    /\ mFailed' = {}
    /\ mRetry' = mFailed
    /\ fev' = MonEvent("load")
    /\ UNCHANGED <<mfile, mclock, mStamp>>
    /\ UNCHANGED <<nvars, avars, mvars, bvars, svars, ivars, dvars>>

\* one pass of the ticker loop: the interval test, the fetch, the baseline
\* test, the threshold test, the message and the save
MonEval(outcome) ==
    /\ mpc = "eval"
    /\ LET c == ChatOrder[mci]
           x == MonTickers(musers, c)[msi]
           key == <<c, x>>
           cfg == musers[c].notifications[x]
           r == MonStep(cfg, musers[c], outcome, mnow)
           pos == MonNorm(musers, mci, msi + 1)
       IN
        /\ musers' = IF r.write THEN [musers EXCEPT ![c].notifications[x] = r.cfg] ELSE musers
        /\ mfile' = IF r.write THEN musers' ELSE mfile
        /\ mStamp' = IF r.send THEN [mStamp EXCEPT ![key] = r.cfg.last_notif_ts] ELSE mStamp
        /\ mci' = pos[1]
        /\ msi' = pos[2]
        /\ mpc' = IF pos[1] = Done THEN "sleep" ELSE "eval"
        /\ mFetched' = IF r.fetched THEN mFetched \cup {key} ELSE mFetched
        /\ mFailed' = IF r.failed THEN mFailed \cup {key} ELSE mFailed
        /\ fev' = [kind |-> "eval", chat |-> c, sym |-> x,
                   price |-> IF r.fetched THEN outcome ELSE FetchNone,
                   pre |-> cfg, interval |-> MonInterval(cfg, musers[c]),
                   fetched |-> r.fetched, sent |-> r.send, saved |-> r.write,
                   failed |-> r.failed, prevStamp |-> mStamp[key]]
    /\ UNCHANGED <<mclock, mnow, mticks, mRetry>>
    /\ UNCHANGED <<nvars, avars, mvars, bvars, svars, ivars, dvars>>

\* time.sleep(LOOP_SLEEP); extra is the time the tick itself took
MonSleep(extra) ==
    /\ mpc = "sleep"
    /\ mclock' = mclock + LOOP_SLEEP + extra
    /\ mpc' = "load"
    /\ fev' = MonEvent("sleep")
    /\ UNCHANGED <<mfile, mnow, musers, mci, msi, mticks, mStamp, mFetched, mFailed, mRetry>>
    /\ UNCHANGED <<nvars, avars, mvars, bvars, svars, ivars, dvars>>

NextMon ==
    \/ MonLoad
    \/ \E o \in MonPrices \cup {FetchNone} : MonEval(o)
    \/ \E d \in {0, MonDelay} : MonSleep(d)

InitMonitor ==
    /\ mfile \in MonFiles
    /\ mclock = 0
    /\ mpc = "load"
    /\ mnow = 0
    /\ musers = NoUsers
    /\ mci = 1
    /\ msi = 1
    /\ mticks = 0
    /\ mStamp = [p \in Chats \X Syms |-> NoTime]
    /\ mFetched = {}
    /\ mFailed = {}
    /\ mRetry = {}
    /\ fev = MonEvent("init")

InitMon ==
    /\ InitNotify
    /\ file = NoUsers
    /\ InitIdle
    /\ mprog = "app"
    /\ InitMonitor
    /\ InitServerOff
    /\ InitProcOff
    /\ InitDailyOff

\* notifiche.py with one running monitor_loop
SpecMon == InitMon /\ [][NextMon]_vars

\* a deployment of notifiche.py: no notify_loop and no webhook of app.py
InitNotifyOff ==
    /\ file = NoUsers
    /\ now = 1
    /\ lpc = "off"
    /\ lusers = NoUsers
    /\ lci = 1
    /\ lsi = 1
    /\ last_prices = NoPrices
    /\ wpc = "off"
    /\ wusers = NoUsers
    /\ wreq = NoReq
    /\ nreq = 0
    /\ nrst = 0
    /\ lastSent = [p \in Chats \X Syms |-> NoSent]
    /\ acked = {}
    /\ evaluated = {}
    /\ sentTick = {}
    /\ failedTick = FALSE
    /\ loaded0 = NoUsers
    /\ ev = Event("init")

InitLoops ==
    \/ Init
    \/ /\ InitNotifyOff
       /\ InitIdle
       /\ mprog = "app"
       /\ InitMonitor
       /\ InitServerOff
       /\ InitProcOff
       /\ InitDailyOff

\* either polling loop: app.py / bot.py with notify_loop and the webhook,
\* or notifiche.py with monitor_loop
SpecLoops == InitLoops /\ [][NextRun \/ NextMon]_vars

\* C12: a failed price fetch sends nothing and leaves the entry as it was,
\* in the loop's dict and in users.json; the symbol stays polled: every tick
\* of notify_loop fetches every favourite it loaded, and a tick of
\* monitor_loop fetches every entry whose fetch failed in the tick before
\* and that is due.
C12_FailedFetchRetried ==
    /\ (ev.kind = "eval" /\ ev.price \in {FetchNone, FetchRaise})
          => /\ ~ev.sent /\ ~ev.saved
             /\ Stored(lusers) = ev.pre
             /\ InFavs(lusers, ev.chat, ev.sym)
    /\ lpc = "sleep" => FavPairs(loaded0) \subseteq evaluated
    /\ (fev.kind = "eval" /\ fev.failed)
          => /\ ~fev.sent /\ ~fev.saved
             /\ MonCfg(musers, fev.chat, fev.sym) = fev.pre
             /\ MonCfg(mfile, fev.chat, fev.sym) = fev.pre
    /\ mpc = "sleep" =>
          \A p \in mRetry :
              (/\ p \in MonPairs(musers)
               /\ ~MonDebounced(MonCfg(musers, p[1], p[2]), musers[p[1]], mnow))
                  => p \in mFetched

\* the fetch of an entry failed in one tick and gave a price in the next,
\* which was notified
C12_Witness ==
    /\ fev.kind = "eval" /\ <<fev.chat, fev.sym>> \in mRetry
    /\ fev.price \in MonPrices /\ fev.sent
    /\ fev.pre.baseline_price = 100

\* C14: an entry with a non-zero last_notif_ts is skipped (no fetch, no
\* change of the entry, no notification, no save) in every tick that starts
\* less than its interval (interval_min, else the user's
\* notification_interval_default, else 15 minutes) after last_notif_ts, and
\* two notifications of an entry are stamped at least that interval apart.
C14_IntervalSkip ==
    /\ (/\ fev.kind = "eval"
        /\ fev.pre.last_notif_ts # 0
        /\ mnow - fev.pre.last_notif_ts < fev.interval * 60)
          => /\ ~fev.fetched /\ ~fev.sent /\ ~fev.saved
             /\ MonCfg(musers, fev.chat, fev.sym) = fev.pre
             /\ MonCfg(mfile, fev.chat, fev.sym) = fev.pre
    /\ (fev.kind = "eval" /\ fev.sent /\ fev.prevStamp # NoTime)
          => mStamp[<<fev.chat, fev.sym>>] - fev.prevStamp >= fev.interval * 60
    /\ (fev.kind = "eval" /\ fev.pre.interval_min = Missing)
          => fev.interval = IF musers[fev.chat].notification_interval_default # Missing
                            THEN musers[fev.chat].notification_interval_default
                            ELSE 15

\* an entry without interval_min of a user without default, skipped 20 s
\* after its notification
C14_Witness ==
    /\ fev.kind = "eval" /\ ~fev.fetched
    /\ fev.pre.interval_min = Missing /\ fev.interval = 15
    /\ mnow - fev.pre.last_notif_ts = LOOP_SLEEP

\* ------------------------------------------------------------------------
\* notifiche.py: the steps of a call of start_background
\* ------------------------------------------------------------------------
\* if _monitor_thread and _monitor_thread.is_alive(): return
SBCheck(k) ==
    /\ bpc[k] = "idle"
    /\ bcalls < MaxCalls
    /\ bcalls' = bcalls + 1
    /\ bpc' = [bpc EXCEPT ![k] = IF bthread # 0 /\ bthreads[bthread] = "alive" THEN "idle" ELSE "create"]
    /\ UNCHANGED <<bthread, bthreads>>
    /\ UNCHANGED <<nvars, avars, mvars, fvars, svars, ivars, dvars>>

\* _monitor_thread = threading.Thread(target=monitor_loop, ...)
SBCreate(k) ==
    /\ bpc[k] = "create"
    /\ bthreads' = Append(bthreads, "new")
    /\ bthread' = Len(bthreads) + 1
    /\ bpc' = [bpc EXCEPT ![k] = "start"]
    /\ UNCHANGED bcalls
    /\ UNCHANGED <<nvars, avars, mvars, fvars, svars, ivars, dvars>>

\* _monitor_thread.start(): the global is read again; starting a thread
\* that was started already raises RuntimeError
SBStart(k) ==
    /\ bpc[k] = "start"
    /\ bthreads' = [bthreads EXCEPT ![bthread] = "alive"]
    /\ bpc' = [bpc EXCEPT ![k] = "idle"]
    /\ UNCHANGED <<bthread, bcalls>>
    /\ UNCHANGED <<nvars, avars, mvars, fvars, svars, ivars, dvars>>


\* notifiche.py, start_background called from several threads
SpecStart ==
    /\ InitMon
    /\ [][\E k \in Callers : SBCheck(k) \/ SBCreate(k) \/ SBStart(k)]_vars

\* C13: at most one monitor_loop thread is running.
C13_SingleMonitorThread ==
    Cardinality({t \in 1..Len(bthreads) : bthreads[t] = "alive"}) <= 1

\* ------------------------------------------------------------------------
\* server.py: POST /webhook
\* ------------------------------------------------------------------------

\* One request: the secret-token check, then the branch of the message (or
\* of the callback).  outs are the prices /monitora fetches, ok tells whether
\* the first outbound call of the branch succeeds.
Webhook(req, header, outs, ok) ==
    /\ spc # "off"
    /\ sreqs < MaxSrvRequests
    /\ req.kind = "alert" => snextId <= MaxSrvAlerts
    /\ req.kind # "monitora" => \A x \in SrvSyms : outs[x] = FetchNone
    /\ req.kind \notin {"stopmonitora", "cb_stopmonitor"} => ok
    /\ sreqs' = sreqs + 1
    /\ LET pass == TokenOk(secret, header)
           k == IF pass THEN req.kind ELSE "rejected"
           c == req.chat
           alert == [id |-> snextId, symbol |-> req.symbols[1],
                     target_price |-> req.target, direction |-> req.direction]
           stop == \/ k = "stopmonitora"
                   \/ k = "cb_stopmonitor" /\ ok
       IN
        /\ price_alerts' = IF k = "alert" THEN AddAlert(price_alerts, c, alert)
                           ELSE price_alerts
        /\ snextId' = IF k = "alert" THEN snextId + 1 ELSE snextId
        /\ price_change_subscriptions' =
              CASE k = "monitora" ->
                      Subscribe(price_change_subscriptions, c, req.symbols, req.target)
                [] stop -> SelectSeq(price_change_subscriptions, LAMBDA it : it.chat # c)
                [] OTHER -> price_change_subscriptions
        /\ srv_last_prices' = IF k = "monitora"
                              THEN InitLast(srv_last_prices, req.symbols, outs)
                              ELSE srv_last_prices
        /\ sBase' = IF k = "monitora" THEN InitLast(sBase, req.symbols, outs) ELSE sBase
        /\ sPassRef' = IF k = "monitora" THEN InitLast(sPassRef, req.symbols, outs) ELSE sPassRef
        /\ sStopped' = CASE k = "monitora" -> sStopped \ {c}
                         [] stop /\ ok -> sStopped \cup {c}
                         [] OTHER -> sStopped
        /\ sev' = [SrvEvent("request") EXCEPT
                      !.rkind = req.kind, !.chat = c, !.header = header,
                      !.status = CASE k = "rejected" -> 401
                                   [] k = "monitora_bad" -> 500
                                   [] OTHER -> 200,
                      !.out = CASE k \in {"rejected", "monitora_bad"} -> 0
                                [] k = "text" -> 2
                                [] k = "cb_stopmonitor" /\ ok -> 2
                                [] OTHER -> 1,
                      !.sent = ok,
                      !.pre = <<price_alerts, price_change_subscriptions, srv_last_prices>>]
    /\ UNCHANGED <<secret, spc, saItems, sai, saCopy, saj, ssItems, ssi, ssj, spasses,
                   sNotified>>
    /\ UNCHANGED <<nvars, avars, mvars, fvars, bvars, ivars, dvars>>

\* ------------------------------------------------------------------------
\* server.py: check_price_alerts
\* ------------------------------------------------------------------------
RECURSIVE SubNorm(_, _, _)
SubNorm(items, i, j) ==
    IF i > Len(items) THEN <<Len(items) + 1, 1>>
    ELSE IF j > Len(items[i].symbols) THEN SubNorm(items, i + 1, 1)
    ELSE <<i, j>>

\* the top of a pass: list(price_alerts.items())
PassStart ==
    /\ spc = "start"
    /\ spasses < MaxPasses
    /\ spasses' = spasses + 1
    /\ saItems' = [i \in 1..Len(price_alerts) |-> price_alerts[i].chat]
    /\ sai' = 1
    /\ spc' = "achat"
    /\ sPassRef' = srv_last_prices
    /\ sev' = SrvEvent("pass")
    /\ UNCHANGED <<secret, price_alerts, price_change_subscriptions, srv_last_prices, saCopy,
                   saj, ssItems, ssi, ssj, sreqs, snextId, sNotified, sStopped, sBase>>
    /\ UNCHANGED <<nvars, avars, mvars, fvars, bvars, ivars, dvars>>

\* the next chat of the snapshot: alerts[:]; after the last chat:
\* list(price_change_subscriptions.items())
AlertChat ==
    /\ spc = "achat"
    /\ IF sai > Len(saItems)
       THEN /\ ssItems' = price_change_subscriptions
            /\ LET pos == SubNorm(ssItems', 1, 1) IN
                /\ ssi' = pos[1]
                /\ ssj' = pos[2]
                /\ spc' = IF pos[1] > Len(ssItems') THEN "sleep" ELSE "sub"
            /\ UNCHANGED <<saCopy, saj, sai>>
       ELSE /\ saCopy' = price_alerts[ItemIndex(price_alerts, saItems[sai])].alerts
            /\ saj' = 1
            /\ sai' = IF saCopy' = <<>> THEN sai + 1 ELSE sai
            /\ spc' = IF saCopy' = <<>> THEN "achat" ELSE "alert"
            /\ UNCHANGED <<ssItems, ssi, ssj>>
    /\ sev' = SrvEvent("achat")
    /\ UNCHANGED <<secret, price_alerts, price_change_subscriptions, srv_last_prices, saItems,
                   sreqs, spasses, snextId, sNotified, sStopped, sBase, sPassRef>>
    /\ UNCHANGED <<nvars, avars, mvars, fvars, bvars, ivars, dvars>>

\* one alert of the copy: the fetch, the test, the message, the removal
AlertEval(outcome, ok) ==
    /\ spc = "alert"
    /\ LET c == saItems[sai]
           alert == saCopy[saj]
           hit == outcome # FetchNone /\ SrvTriggered(alert, outcome)
           last == saj = Len(saCopy)
       IN
        /\ ~hit => ok
        /\ price_alerts' = IF hit THEN RemoveAlertOf(price_alerts, c, alert) ELSE price_alerts
        /\ sNotified' = IF hit /\ ok THEN [sNotified EXCEPT ![alert.id] = @ + 1] ELSE sNotified
        /\ saj' = IF last THEN 1 ELSE saj + 1
        /\ sai' = IF last THEN sai + 1 ELSE sai
        /\ spc' = IF last THEN "achat" ELSE "alert"
        /\ sev' = [SrvEvent("alert") EXCEPT !.chat = c, !.sym = alert.symbol,
                      !.price = outcome, !.aid = alert.id, !.hit = hit, !.sent = hit /\ ok]
    /\ UNCHANGED <<secret, price_change_subscriptions, srv_last_prices, saItems, saCopy,
                   ssItems, ssi, ssj, sreqs, spasses, snextId, sStopped, sBase, sPassRef>>
    /\ UNCHANGED <<nvars, avars, mvars, fvars, bvars, ivars, dvars>>

\* one symbol of one subscription of the snapshot: the fetch, the comparison
\* with last_prices[symbol], the message, last_prices[symbol] = current_price
SubEval(outcome) ==
    /\ spc = "sub"
    /\ LET it == ssItems[ssi]
           x == it.symbols[ssj]
           got == outcome # FetchNone
           ref == IF x \in DOMAIN srv_last_prices THEN srv_last_prices[x] ELSE None
           send == got /\ ref # None /\ SrvChanged(outcome, ref, it.threshold)
           pos == SubNorm(ssItems, ssi, ssj + 1)
       IN
        /\ srv_last_prices' = IF got THEN Put(srv_last_prices, x, outcome) ELSE srv_last_prices
        /\ sBase' = IF got /\ (send \/ ref = None) THEN Put(sBase, x, outcome) ELSE sBase
        /\ ssi' = pos[1]
        /\ ssj' = pos[2]
        /\ spc' = IF pos[1] > Len(ssItems) THEN "sleep" ELSE "sub"
        /\ sev' = [SrvEvent("sub") EXCEPT !.chat = it.chat, !.sym = x, !.price = outcome,
                      !.ref = ref, !.thr = it.threshold, !.sent = send,
                      !.base = IF x \in DOMAIN sBase THEN sBase[x] ELSE None,
                      !.passRef = IF x \in DOMAIN sPassRef THEN sPassRef[x] ELSE None,
                      !.stopped = it.chat \in sStopped]
    /\ UNCHANGED <<secret, price_alerts, price_change_subscriptions, saItems, sai, saCopy, saj,
                   ssItems, sreqs, spasses, snextId, sNotified, sStopped, sPassRef>>
    /\ UNCHANGED <<nvars, avars, mvars, fvars, bvars, ivars, dvars>>

\* time.sleep(60)
PassSleep ==
    /\ spc = "sleep"
    /\ spc' = "start"
    /\ sev' = SrvEvent("sleep")
    /\ UNCHANGED <<secret, price_alerts, price_change_subscriptions, srv_last_prices, saItems,
                   sai, saCopy, saj, ssItems, ssi, ssj, sreqs, spasses, snextId, sNotified,
                   sStopped, sBase, sPassRef>>
    /\ UNCHANGED <<nvars, avars, mvars, fvars, bvars, ivars, dvars>>

InitSrv ==
    /\ InitNotifyOff
    /\ InitIdle
    /\ mprog = "app"
    /\ InitMonitorOff
    /\ InitProcOff
    /\ InitDailyOff
    /\ secret \in BOOLEAN
    /\ price_alerts = <<>>
    /\ price_change_subscriptions = <<>>
    /\ srv_last_prices = NoPrices
    /\ spc = "start"
    /\ saItems = <<>>
    /\ sai = 1
    /\ saCopy = <<>>
    /\ saj = 1
    /\ ssItems = <<>>
    /\ ssi = 1
    /\ ssj = 1
    /\ sreqs = 0
    /\ spasses = 0
    /\ snextId = 1
    /\ sNotified = [i \in 1..MaxSrvAlerts |-> 0]
    /\ sStopped = {}
    /\ sBase = NoPrices
    /\ sPassRef = NoPrices
    /\ sev = SrvEvent("init")

\* server.py: the webhook and the check_price_alerts thread
SpecSrv ==
    /\ InitSrv
    /\ [][\/ \E req \in SrvRequests, h \in {"good", "bad", "missing"} :
                \E outs \in [SrvSyms -> SrvPrices \cup {FetchNone}], ok \in BOOLEAN :
                    Webhook(req, h, outs, ok)
          \/ PassStart
          \/ AlertChat
          \/ \E o \in SrvPrices \cup {FetchNone}, ok \in BOOLEAN : AlertEval(o, ok)
          \/ \E o \in SrvPrices \cup {FetchNone} : SubEval(o)
          \/ PassSleep]_vars

\* C15: server.py acknowledges every POST /webhook that passes the secret-token
\* test with HTTP 200, whatever the update holds, /monitora with a threshold
\* that is not a number included
C15_WebhookAcknowledged ==
    (sev.kind = "request" /\ TokenOk(secret, sev.header)) => sev.status = 200

\* C16: in a pass of check_price_alerts every subscriber of a symbol whose
\* fetched price differs by at least the subscriber's threshold from the
\* symbol's reference price (the one the pass started with, or the one a later
\* /monitora stored) is sent a price-change notification, also when several
\* chats monitor the same symbol
C16_EverySubscriberNotified ==
    (/\ sev.kind = "sub"
     /\ sev.price # FetchNone
     /\ sev.passRef # None
     /\ SrvChanged(sev.price, sev.passRef, sev.thr)) => sev.sent

\* C17: the change of a monitored symbol is measured against a baseline that
\* is reset only when a notification fires or monitoring starts: a poll whose
\* price differs from that baseline by at least the threshold sends a
\* notification, however many polls below the threshold came before it
C17_AccumulatedMoveTriggers ==
    (/\ sev.kind = "sub"
     /\ sev.price # FetchNone
     /\ sev.base # None
     /\ SrvChanged(sev.price, sev.base, sev.thr)) => sev.sent

\* C18: with TELEGRAM_SECRET_TOKEN configured, a POST /webhook whose secret
\* header is missing or different is answered 401, leaves price_alerts,
\* price_change_subscriptions and last_prices as they were and makes no
\* outbound call
C18_UnauthorizedNoEffect ==
    (sev.kind = "request" /\ secret /\ sev.header # "good") =>
        /\ sev.status = 401
        /\ <<price_alerts, price_change_subscriptions, srv_last_prices>> = sev.pre
        /\ sev.out = 0

\* a /stopmonitora without the header was refused while the chat is subscribed
C18_Witness ==
    /\ sev.kind = "request"
    /\ secret
    /\ sev.header = "missing"
    /\ sev.rkind = "stopmonitora"
    /\ sev.status = 401
    /\ HasItem(price_change_subscriptions, sev.chat)

\* C19: a fixed alert whose condition is met is removed from price_alerts in
\* the step that sends its message, so no alert is ever notified twice and a
\* notified alert is not listed any more; an alert whose condition is not met
\* or whose price fetch failed stays listed
C19_AlertFiresOnce ==
    /\ (sev.kind = "alert" /\ sev.hit) => sev.aid \notin ListedIds(price_alerts)
    /\ (sev.kind = "alert" /\ ~sev.hit) => sev.aid \in ListedIds(price_alerts)
    /\ \A i \in 1..MaxSrvAlerts :
          /\ sNotified[i] <= 1
          /\ sNotified[i] = 1 => i \notin ListedIds(price_alerts)

\* in a second pass an alert fired and was notified while another one stays
C19_Witness ==
    /\ sev.kind = "alert"
    /\ sev.hit
    /\ sev.sent
    /\ sNotified[sev.aid] = 1
    /\ spasses = 2
    /\ ListedIds(price_alerts) # {}

\* C20: once /stopmonitora or the action_stopmonitor button has been handled
\* for a chat and its confirmation sent, check_price_alerts sends that chat no
\* price-change notification until the chat subscribes again with /monitora
C20_NoNotificationAfterStop ==
    (sev.kind = "sub" /\ sev.sent) => ~sev.stopped

\* ------------------------------------------------------------------------
\* Server.py: the alerts table, /set_alert, /remove_alert and alert_worker
\* ------------------------------------------------------------------------
MaxAlerts == 2
AlertThresholds == {103}
AlertPrices == {100, 106}
AlertChats == {"c1"}
Directions == {"below", "above"}

\* what get_price(sym) can deliver: a price, None, or an exception of
\* yf.Ticker(symbol).info
AlertOutcomes == AlertPrices \cup {FetchNone, FetchRaise}

\* dirc == "below" and price <= thr, or dirc == "above" and price >= thr
Triggers(row, price) ==
    \/ row.direction = "below" /\ price <= row.threshold
    \/ row.direction = "above" /\ price >= row.threshold

Ids(rows) == {rows[i].id : i \in 1..Len(rows)}

AEvent(kind) == [kind |-> kind, id |-> 0, price |-> FetchNone, sent |-> FALSE]

\* cmd_set_alert: INSERT INTO alerts(symbol,threshold,direction,chat_id)
SetAlert(sym, thr, dirc, chat) ==
    /\ nextId <= MaxAlerts
    /\ alerts' = Append(alerts, [id |-> nextId, symbol |-> sym, threshold |-> thr,
                                 direction |-> dirc, chat_id |-> chat])
    /\ nextId' = nextId + 1
    /\ aev' = AEvent("set")
    /\ UNCHANGED <<apc, arows, ai, aEval, aFail, aSent, aSentPrev>>
    /\ UNCHANGED nvars
    /\ UNCHANGED ovars

\* cmd_remove_alert: DELETE FROM alerts WHERE id=? AND chat_id=?
RemoveAlert(aid, chat) ==
    /\ alerts' = SelectSeq(alerts, LAMBDA r : ~(r.id = aid /\ r.chat_id = chat))
    /\ alerts' # alerts
    /\ aev' = AEvent("remove")
    /\ UNCHANGED <<nextId, apc, arows, ai, aEval, aFail, aSent, aSentPrev>>
    /\ UNCHANGED nvars
    /\ UNCHANGED ovars

\* rows = db_execute("SELECT ... FROM alerts", fetch=True) at the top of a pass
WorkerSelect ==
    /\ apc = "select"
    /\ arows' = alerts
    /\ ai' = 1
    /\ apc' = IF Len(alerts) = 0 THEN "sleep" ELSE "eval"
    /\ aEval' = {}
    /\ aFail' = FALSE
    /\ aSentPrev' = aSent
    /\ aSent' = {}
    /\ aev' = AEvent("select")
    /\ UNCHANGED <<alerts, nextId>>
    /\ UNCHANGED nvars
    /\ UNCHANGED ovars

\* one pass of "for r in rows": the price fetch, the two tests, the message.
\* An exception of get_price or of send_message leaves the for loop for the
\* except clause of the while body.
WorkerEval(outcome, sendOk) ==
    /\ apc = "eval"
    /\ LET r == arows[ai]
           hit == outcome \in AlertPrices /\ Triggers(r, outcome)
           raised == outcome = FetchRaise \/ (hit /\ ~sendOk)
       IN
        /\ aEval' = aEval \cup {r.id}
        /\ aFail' = (aFail \/ outcome \in {FetchNone, FetchRaise})
        /\ aSent' = IF hit /\ sendOk THEN aSent \cup {r.id} ELSE aSent
        /\ apc' = IF raised THEN "recover"
                  ELSE IF ai = Len(arows) THEN "sleep" ELSE "eval"
        /\ ai' = IF raised \/ ai = Len(arows) THEN ai ELSE ai + 1
        /\ aev' = [kind |-> "eval", id |-> r.id, price |-> outcome, sent |-> hit /\ sendOk]
    /\ UNCHANGED <<alerts, nextId, arows, aSentPrev>>
    /\ UNCHANGED nvars
    /\ UNCHANGED ovars

\* await asyncio.sleep(ALERT_POLL_INTERVAL) after a pass
WorkerSleep ==
    /\ apc = "sleep"
    /\ apc' = "select"
    /\ aev' = AEvent("sleep")
    /\ UNCHANGED <<alerts, nextId, arows, ai, aEval, aFail, aSent, aSentPrev>>
    /\ UNCHANGED nvars
    /\ UNCHANGED ovars

\* except Exception: await asyncio.sleep(10)
WorkerRecover ==
    /\ apc = "recover"
    /\ apc' = "select"
    /\ aev' = AEvent("recover")
    /\ UNCHANGED <<alerts, nextId, arows, ai, aEval, aFail, aSent, aSentPrev>>
    /\ UNCHANGED nvars
    /\ UNCHANGED ovars

NextAlert ==
    \/ \E sym \in Syms, thr \in AlertThresholds, d \in Directions, c \in AlertChats :
          SetAlert(sym, thr, d, c)
    \/ \E aid \in 1..MaxAlerts, c \in AlertChats : RemoveAlert(aid, c)
    \/ WorkerSelect
    \/ \E o \in AlertOutcomes, ok \in BOOLEAN : WorkerEval(o, ok)
    \/ WorkerSleep
    \/ WorkerRecover

InitAlert == Init /\ file = NoUsers

\* Server.py with a running alert_worker
SpecAlert == InitAlert /\ [][NextAlert]_vars

\* C5: a pass of alert_worker in which a price fetch failed (None or an
\* exception) still reaches every row of its batch.
C5_FetchFailureIsolated ==
    (apc \in {"sleep", "recover"} /\ aFail) => aEval = Ids(arows)

\* C7: an alert does not produce a message in two consecutive passes.
C7_NoRenotifyEveryPoll ==
    aSent \cap aSentPrev = {}

\* ------------------------------------------------------------------------
\* Server.py: webhook requests served by concurrent threads
\* ------------------------------------------------------------------------
\* a request arrives at a server that is serving (a WSGI server that imported
\* the module, or app.run of the __main__ block): ensure_initialized tests
\* _bot_initialized
HookCheck(k) ==
    /\ mainpc \in {"off", "serve"}
    /\ hpc[k] = "idle"
    /\ hreqs < MaxHooks
    /\ hreqs' = hreqs + 1
    /\ hpc' = [hpc EXCEPT ![k] = IF binit THEN "process" ELSE "initialize"]
    /\ iev' = [HookEvent("check") EXCEPT !.hook = k, !.flag = binit]
    /\ UNCHANGED <<binit, mainpc, aloop, aready, atask>>
    /\ UNCHANGED <<nvars, avars, mvars, fvars, bvars, svars, dvars>>

\* await application.initialize(); an exception is re-raised and the view
\* returns ("error", 500)
HookInitialize(k, ok) ==
    /\ hpc[k] = "initialize"
    /\ hpc' = [hpc EXCEPT ![k] = IF ok THEN "set_webhook" ELSE "idle"]
    /\ iev' = [HookEvent("initialize") EXCEPT !.hook = k, !.flag = binit, !.ok = ok,
                  !.status = IF ok THEN 0 ELSE 500]
    /\ UNCHANGED <<binit, hreqs, mainpc, aloop, aready, atask>>
    /\ UNCHANGED <<nvars, avars, mvars, fvars, bvars, svars, dvars>>

\* await application.bot.set_webhook(...); _bot_initialized = True
HookSetWebhook(k, ok) ==
    /\ hpc[k] = "set_webhook"
    /\ binit' = (binit \/ ok)
    /\ hpc' = [hpc EXCEPT ![k] = IF ok THEN "process" ELSE "idle"]
    /\ iev' = [HookEvent("set_webhook") EXCEPT !.hook = k, !.flag = binit, !.ok = ok,
                  !.status = IF ok THEN 0 ELSE 500]
    /\ UNCHANGED <<hreqs, mainpc, aloop, aready, atask>>
    /\ UNCHANGED <<nvars, avars, mvars, fvars, bvars, svars, dvars>>

\* asyncio.run(application.process_update(update)); return "ok", 200
HookProcess(k, ok) ==
    /\ hpc[k] = "process"
    /\ hpc' = [hpc EXCEPT ![k] = "idle"]
    /\ iev' = [HookEvent("process") EXCEPT !.hook = k, !.flag = binit, !.ok = ok,
                  !.status = IF ok THEN 200 ELSE 500]
    /\ UNCHANGED <<binit, hreqs, mainpc, aloop, aready, atask>>
    /\ UNCHANGED <<nvars, avars, mvars, fvars, bvars, svars, dvars>>

InitHook ==
    /\ InitNotifyOff
    /\ InitIdle
    /\ mprog = "app"
    /\ InitMonitorOff
    /\ InitServerOff
    /\ InitProcOff
    /\ InitDailyOff

\* Server.py imported by a WSGI server whose threads serve POST /webhook
SpecHook ==
    /\ InitHook
    /\ [][\/ \E k \in Hooks : HookCheck(k)
          \/ \E k \in Hooks, ok \in BOOLEAN : HookInitialize(k, ok)
          \/ \E k \in Hooks, ok \in BOOLEAN : HookSetWebhook(k, ok)
          \/ \E k \in Hooks, ok \in BOOLEAN : HookProcess(k, ok)]_vars

\* C22: an update is processed only after ensure_initialized has succeeded; an
\* initialization that raises leaves _bot_initialized as it was and the
\* request is answered 500; and once _bot_initialized is True neither
\* application.initialize nor set_webhook is called again, whichever way
\* concurrent requests interleave
C22_InitializedOnce ==
    /\ iev.kind = "process" => iev.flag
    /\ (iev.kind \in {"initialize", "set_webhook"} /\ ~iev.ok) =>
          (iev.status = 500 /\ binit = iev.flag)
    /\ iev.kind \in {"initialize", "set_webhook"} => ~iev.flag

\* ------------------------------------------------------------------------
\* Server.py: the __main__ block
\* ------------------------------------------------------------------------
\* loop.run_until_complete(ensure_initialized()): the loop starts running
\* with the coroutine as its one ready task
MainRun ==
    /\ mainpc = "start"
    /\ mainpc' = "wait"
    /\ aloop' = "running"
    /\ aready' = Append(aready, "ensure_initialized")
    /\ iev' = HookEvent("run")
    /\ UNCHANGED <<binit, hpc, hreqs, atask>>
    /\ UNCHANGED <<nvars, avars, mvars, fvars, bvars, svars, dvars>>

\* the loop, while it runs, executes the first of its ready tasks:
\* ensure_initialized to its end, or alert_worker up to its first await
LoopStep(ok) ==
    /\ aloop = "running"
    /\ aready # <<>>
    /\ Head(aready) # "ensure_initialized" => ok
    /\ aready' = Tail(aready)
    /\ binit' = IF Head(aready) = "ensure_initialized" THEN (binit \/ ok) ELSE binit
    /\ atask' = IF Head(aready) = "alert_worker" THEN "running" ELSE atask
    /\ iev' = [HookEvent(Head(aready)) EXCEPT !.flag = binit, !.ok = ok]
    /\ UNCHANGED <<hpc, hreqs, mainpc, aloop>>
    /\ UNCHANGED <<nvars, avars, mvars, fvars, bvars, svars, dvars>>

\* run_until_complete returns when the coroutine is done and stops the loop;
\* an exception of ensure_initialized ends the process
MainComplete ==
    /\ mainpc = "wait"
    /\ aready = <<>>
    /\ aloop' = "stopped"
    /\ mainpc' = IF binit THEN "create" ELSE "crashed"
    /\ iev' = [HookEvent("complete") EXCEPT !.flag = binit]
    /\ UNCHANGED <<binit, hpc, hreqs, aready, atask>>
    /\ UNCHANGED <<nvars, avars, mvars, fvars, bvars, svars, dvars>>

\* loop.create_task(alert_worker()), then app.run(...), which serves
\* requests until the process ends
MainCreateTask ==
    /\ mainpc = "create"
    /\ aready' = Append(aready, "alert_worker")
    /\ atask' = "pending"
    /\ mainpc' = "serve"
    /\ iev' = [HookEvent("create_task") EXCEPT !.flag = binit]
    /\ UNCHANGED <<binit, hpc, hreqs, aloop>>
    /\ UNCHANGED <<nvars, avars, mvars, fvars, bvars, svars, dvars>>

\* /set_alert handled by the running server
Serve(sym, thr, dirc, chat) ==
    /\ mainpc = "serve"
    /\ SetAlert(sym, thr, dirc, chat)

InitMain ==
    /\ InitNotifyOff
    /\ InitIdle
    /\ mprog = "app"
    /\ InitMonitorOff
    /\ InitServerOff
    /\ binit = FALSE
    /\ hpc = [k \in Hooks |-> "idle"]
    /\ hreqs = 0
    /\ iev = HookEvent("init")
    /\ mainpc = "start"
    /\ aloop = "stopped"
    /\ aready = <<>>
    /\ atask = "none"
    /\ InitDailyOff

\* python Server.py: the statements of the __main__ block are executed one
\* after the other, and a loop that is running executes its ready tasks
SpecMain ==
    /\ InitMain
    /\ [][\/ MainRun
          \/ \E ok \in BOOLEAN : LoopStep(ok)
          \/ MainComplete
          \/ MainCreateTask
          \/ \E k \in Hooks : HookCheck(k)
          \/ \E k \in Hooks, ok \in BOOLEAN : HookProcess(k, ok)
          \/ \E sym \in Syms, thr \in AlertThresholds, d \in Directions, c \in AlertChats :
                Serve(sym, thr, d, c)]_vars
    /\ WF_vars(MainRun \/ (\E ok \in BOOLEAN : LoopStep(ok)) \/ MainComplete
                  \/ MainCreateTask)

\* C23: started through the __main__ block, the alert_worker task eventually
\* runs its polling loop (the first step towards any notification of a stored
\* alert)
C23_WorkerEventuallyPolls ==
    (mainpc = "serve") ~> (atask = "running")

\* ------------------------------------------------------------------------
\* app.py, bot.py: the daily report trigger at the end of a tick
\* ------------------------------------------------------------------------
\* the trigger: inside the window, load_users(), the 20-hour test, the
\* reports to every chat, users_all["_last_daily_ts"] = now, save_users
DailyTick ==
    /\ dpc = "tick"
    /\ LET send == /\ InWindow(dclock)
                    /\ (dmarker = 0 \/ (dclock - dmarker) > 20 * 60)
       IN
        /\ dmarker' = IF send THEN dclock ELSE dmarker
        /\ dLast' = IF send THEN dclock ELSE dLast
        /\ dev' = [kind |-> "tick", now |-> dclock, sent |-> send, prev |-> dLast]
    /\ dpc' = "sleep"
    /\ UNCHANGED <<dclock, dw, dreqs, drst>>
    /\ UNCHANGED <<nvars, avars, mvars, fvars, bvars, svars, ivars>>

\* time.sleep(CHECK_INTERVAL_MIN * 60); extra is the time the tick itself took
DailySleep(extra) ==
    /\ dpc = "sleep"
    /\ dclock + CHECK_INTERVAL_MIN + extra <= MaxDailyTime
    /\ dclock' = dclock + CHECK_INTERVAL_MIN + extra
    /\ dpc' = "tick"
    /\ dev' = DailyEvent("sleep")
    /\ UNCHANGED <<dmarker, dw, dreqs, drst, dLast>>
    /\ UNCHANGED <<nvars, avars, mvars, fvars, bvars, svars, ivars>>

\* the process is restarted: the request in flight is gone and notify_loop
\* starts with a tick
DailyRestart(gap) ==
    /\ dpc # "off"
    /\ drst < MaxDailyRestarts
    /\ dclock + gap <= MaxDailyTime
    /\ drst' = drst + 1
    /\ dclock' = dclock + gap
    /\ dpc' = "tick"
    /\ dw' = NoTime
    /\ dev' = DailyEvent("restart")
    /\ UNCHANGED <<dmarker, dreqs, dLast>>
    /\ UNCHANGED <<nvars, avars, mvars, fvars, bvars, svars, ivars>>

\* webhook: users = load_users()
DailyHookLoad ==
    /\ dpc # "off"
    /\ dw = NoTime
    /\ dreqs < MaxDailyReqs
    /\ dreqs' = dreqs + 1
    /\ dw' = dmarker
    /\ dev' = DailyEvent("load")
    /\ UNCHANGED <<dclock, dpc, dmarker, drst, dLast>>
    /\ UNCHANGED <<nvars, avars, mvars, fvars, bvars, svars, ivars>>

\* webhook: save_users(users), the whole dict as it was loaded
DailyHookSave ==
    /\ dw # NoTime
    /\ dmarker' = dw
    /\ dw' = NoTime
    /\ dev' = DailyEvent("save")
    /\ UNCHANGED <<dclock, dpc, dreqs, drst, dLast>>
    /\ UNCHANGED <<nvars, avars, mvars, fvars, bvars, svars, ivars>>

InitDaily ==
    /\ InitNotifyOff
    /\ InitIdle
    /\ mprog \in Programs
    /\ InitMonitorOff
    /\ InitServerOff
    /\ InitProcOff
    /\ dclock \in {539, 540}
    /\ dpc = "tick"
    /\ dmarker = 0
    /\ dw = NoTime
    /\ dreqs = 0
    /\ drst = 0
    /\ dLast = NoTime
    /\ dev = DailyEvent("init")

\* notify_loop's daily trigger, the webhook handlers and process restarts
SpecDaily ==
    /\ InitDaily
    /\ [][\/ DailyTick
          \/ \E extra \in {0, 1} : DailySleep(extra)
          \/ \E gap \in {0, 1} : DailyRestart(gap)
          \/ DailyHookLoad
          \/ DailyHookSave]_vars

\* C24: an automatic daily report is sent only in a tick whose local time has
\* hour == DAILY_REPORT_HOUR and minute < 2, and two automatic daily reports
\* are at least 20 hours apart, also when webhook handlers rewrite users.json
\* in between
C24_DailyReportOncePerDay ==
    (dev.kind = "tick" /\ dev.sent) =>
        /\ InWindow(dev.now)
        /\ dev.prev # NoTime => dev.now - dev.prev >= 20 * 60

====
